---------------------------- MODULE Spec2Model ----------------------------
(***************************************************************************)
(* Production reconciliation pipeline of the solar dashboard repository.   *)
(*                                                                         *)
(* Two programs implement the pipeline:                                    *)
(*   main.py              sync_and_load_data + process_data ("main")       *)
(*   sites_table_nogui.py build_installed_sites_table       ("nogui")      *)
(* Each keeps its own persisted series (a parquet file) and reads new      *)
(* spreadsheets from a monitoring folder.                                  *)
(*                                                                         *)
(* Text is modelled as a sequence of tokens (words, blanks, the byte order *)
(* mark), so that strip(), replace(), lower(), join() and the "in" test    *)
(* on strings are computed, not assumed.  A spreadsheet is a sequence of   *)
(* rows, a row a sequence of cells, a cell a text (<< >> is a blank cell). *)
(***************************************************************************)
EXTENDS Integers, Sequences, FiniteSets, TLC

\* ------------------------------------------------------------------ bounds
MaxDate == 2
MaxKwh == 1
MaxDocs == 2
MaxPre == 51
MaxData == 2
MaxDays == 100

\* ------------------------------------------------------- program constants
ScanRowsMain == 50
ScanRowsNogui == 30
ForcedHeaderRow == 20
NaN == -1
NaT == 0

Sites == {"A", "B"}
Dates == 1..MaxDate
Nums == 0..MaxKwh

Min(S) == CHOOSE x \in S : \A y \in S : x <= y
Max(S) == CHOOSE x \in S : \A y \in S : x >= y
Range(f) == {f[i] : i \in DOMAIN f}

\* -------------------------------------------------------------------- text
SP == " "
BOM == "BOM"
Blank == << >>

IsSpace(tok) == tok = SP

RECURSIVE LStrip(_)
LStrip(t) ==
    IF t # << >> /\ IsSpace(Head(t)) THEN LStrip(Tail(t)) ELSE t

RECURSIVE RStrip(_)
RStrip(t) ==
    IF t # << >> /\ IsSpace(t[Len(t)]) THEN RStrip(SubSeq(t, 1, Len(t) - 1)) ELSE t

\* str.strip(): leading and trailing whitespace; the byte order mark is not
\* whitespace for Python.
Strip(t) == RStrip(LStrip(t))

\* str.replace of the byte order mark by ''
RemoveBOM(t) == SelectSeq(t, LAMBDA tok : tok # BOM)

LowerTok(tok) ==
    CASE tok = "Site" -> "site"
      [] tok = "Date" -> "date"
      [] tok = "Solar" -> "solar"
      [] tok = "Supply" -> "supply"
      [] tok = "ID" -> "id"
      [] tok = "(kWh)" -> "(kwh)"
      [] OTHER -> tok

\* str.lower()
Lower(t) == [i \in DOMAIN t |-> LowerTok(t[i])]

\* str(val) of a cell value: a blank cell is read as NaN, whose text is "nan"
StrVal(cell) == IF cell = Blank THEN <<"nan">> ELSE cell

\* needle in text
Contains(t, needle) ==
    \E i \in 0..(Len(t) - Len(needle)) :
        \A j \in 1..Len(needle) : t[i + j] = needle[j]

RECURSIVE Join(_)
\* " ".join(texts)
Join(texts) ==
    IF texts = << >> THEN << >>
    ELSE IF Len(texts) = 1 THEN texts[1]
    ELSE texts[1] \o <<SP>> \o Join(Tail(texts))

RECURSIVE Flat(_)
\* the text as one string
Flat(t) == IF t = << >> THEN "" ELSE Head(t) \o Flat(Tail(t))

TxtSite == <<"Site">>
TxtSiteID == <<"Site", SP, "ID">>
TxtDate == <<"Date">>
TxtSolar == <<"Solar", SP, "Supply", SP, "(kWh)">>

DateText(d) == "2024-01-0" \o ToString(d)

\* pd.to_datetime(errors='coerce') of a cell
ToDatetime(cell) ==
    LET t == Strip(cell)
    IN  IF Len(t) = 1 /\ \E d \in Dates : DateText(d) = t[1]
        THEN CHOOSE d \in Dates : DateText(d) = t[1]
        ELSE NaT

\* a coercion that gives 0 for what is not a number
ToNumericZero(cell) ==
    LET t == Strip(cell)
    IN  IF Len(t) = 1 /\ \E n \in Nums : ToString(n) = t[1]
        THEN CHOOSE n \in Nums : ToString(n) = t[1]
        ELSE 0

\* pd.to_numeric(errors='coerce') of a cell
ToNumeric(cell) ==
    LET t == Strip(cell)
    IN  IF Len(t) = 1 /\ \E n \in Nums : ToString(n) = t[1]
        THEN CHOOSE n \in Nums : ToString(n) = t[1]
        ELSE NaN

\* the cell of a data row under column j (a short row has NaN there)
CellAt(row, j) == IF j \in DOMAIN row THEN row[j] ELSE Blank

\* position of the column named name (the first one: a repeated name is
\* renamed by the reader)
ColumnIndex(cols, name) == Min({j \in DOMAIN cols : cols[j] = name})

Reading(s, d, k) == [site |-> s, date |-> d, kwh |-> k]

\* DataFrame.dropna(subset=['Date'])
DropNaDate(df) == SelectSeq(df, LAMBDA r : r.date # NaT)

\* ------------------------------------------------- extraction, main.py
\* main.py 101-102: the header test on one scanned row
HeaderTestMain(row) ==
    LET row_values == {Strip(StrVal(row[j])) : j \in DOMAIN row}
    IN  TxtSite \in row_values /\ TxtSolar \in row_values

\* header_row_index stays 0 when no row passes the test
FindHeaderMainDefault(rows) ==
    LET n == IF Len(rows) < ScanRowsMain THEN Len(rows) ELSE ScanRowsMain
        hits == {i \in 1..n : HeaderTestMain(rows[i])}
    IN  IF hits = {} THEN 0 ELSE Min(hits) - 1

\* the scan reads 30 rows, as sites_table_nogui.py does
FindHeaderMainShort(rows) ==
    LET n == IF Len(rows) < ScanRowsNogui THEN Len(rows) ELSE ScanRowsNogui
        hits == {i \in 1..n : HeaderTestMain(rows[i])}
    IN  IF hits = {} THEN -1 ELSE Min(hits) - 1

\* main.py 98-105: index (from 0) of the first scanned row passing the test,
\* -1 when there is none
FindHeaderMain(rows) ==
    LET n == IF Len(rows) < ScanRowsMain THEN Len(rows) ELSE ScanRowsMain
        hits == {i \in 1..n : HeaderTestMain(rows[i])}
    IN  IF hits = {} THEN -1 ELSE Min(hits) - 1

\* main.py 113: column names after the reparse
ColumnsMain(rows, h) ==
    [j \in DOMAIN rows[h + 1] |-> Strip(RemoveBOM(StrVal(rows[h + 1][j])))]

\* main.py 116-122
RowsMain(rows, h) ==
    LET cols == ColumnsMain(rows, h)
        site_col == IF TxtSiteID \in Range(cols) THEN TxtSiteID ELSE TxtSite
        js == ColumnIndex(cols, site_col)
        jd == ColumnIndex(cols, TxtDate)
        jk == ColumnIndex(cols, TxtSolar)
        temp_df == [i \in 1..(Len(rows) - h - 1) |->
                      Reading(Flat(Strip(StrVal(CellAt(rows[h + 1 + i], js)))),
                              ToDatetime(CellAt(rows[h + 1 + i], jd)),
                              ToNumeric(CellAt(rows[h + 1 + i], jk)))]
    IN  DropNaDate(temp_df)

\* main.py 87-129: one document of the loop
ExtractMain(doc) ==
    IF doc.corrupt THEN [status |-> "error", rows |-> << >>]
    ELSE LET h == FindHeaderMain(doc.rows)
         IN  IF h = -1 THEN [status |-> "header_not_found", rows |-> << >>]
             ELSE LET cols == Range(ColumnsMain(doc.rows, h))
                  IN  IF TxtSite \in cols /\ TxtDate \in cols /\ TxtSolar \in cols
                      THEN [status |-> "ok", rows |-> RowsMain(doc.rows, h)]
                      ELSE [status |-> "missing_columns", rows |-> << >>]

\* ------------------------------------- extraction, sites_table_nogui.py
\* sites_table_nogui.py 140-143: the header test on one scanned row
HeaderTestNogui(row) ==
    LET row_str == Join([j \in DOMAIN row |-> StrVal(row[j])])
    IN  Contains(row_str, TxtSolar)

\* sites_table_nogui.py 135-151: index (from 0) of the first scanned row
\* passing the test; row 21 is forced when there is none
FindHeaderNogui(rows) ==
    LET n == IF Len(rows) < ScanRowsNogui THEN Len(rows) ELSE ScanRowsNogui
        hits == {i \in 1..n : HeaderTestNogui(rows[i])}
    IN  IF hits = {} THEN ForcedHeaderRow ELSE Min(hits) - 1

\* sites_table_nogui.py 157
ColumnsNogui(rows, h) ==
    [j \in DOMAIN rows[h + 1] |-> Strip(StrVal(rows[h + 1][j]))]

\* sites_table_nogui.py 165-173: the last column passing each test, 0 for none
ColSite(cols) ==
    LET m == {j \in DOMAIN cols : Lower(cols[j]) = <<"site">>}
    IN  IF m = {} THEN 0 ELSE Max(m)

ColDate(cols) ==
    LET m == {j \in DOMAIN cols :
                 Lower(cols[j]) # <<"site">> /\ Lower(cols[j]) = <<"date">>}
    IN  IF m = {} THEN 0 ELSE Max(m)

ColSolar(cols) ==
    LET m == {j \in DOMAIN cols :
                 /\ Lower(cols[j]) # <<"site">>
                 /\ Lower(cols[j]) # <<"date">>
                 /\ "solar" \in Range(Lower(cols[j]))
                 /\ "supply" \in Range(Lower(cols[j]))}
    IN  IF m = {} THEN 0 ELSE Max(m)

\* sites_table_nogui.py 180-189
RowsNogui(rows, h) ==
    LET cols == ColumnsNogui(rows, h)
        js == ColSite(cols)
        jd == ColDate(cols)
        jk == ColSolar(cols)
        df_subset == [i \in 1..(Len(rows) - h - 1) |->
                        Reading(Flat(Strip(StrVal(CellAt(rows[h + 1 + i], js)))),
                                ToDatetime(CellAt(rows[h + 1 + i], jd)),
                                ToNumeric(CellAt(rows[h + 1 + i], jk)))]
    IN  DropNaDate(df_subset)

\* sites_table_nogui.py 131-202: one document of the loop
ExtractNogui(doc) ==
    IF doc.corrupt THEN [status |-> "error", rows |-> << >>]
    ELSE LET h == FindHeaderNogui(doc.rows)
         IN  IF h >= Len(doc.rows) THEN [status |-> "error", rows |-> << >>]
             ELSE LET cols == ColumnsNogui(doc.rows, h)
                  IN  IF ColSite(cols) # 0 /\ ColDate(cols) # 0 /\ ColSolar(cols) # 0
                      THEN IF Len(RowsNogui(doc.rows, h)) > 0
                           THEN [status |-> "ok", rows |-> RowsNogui(doc.rows, h)]
                           ELSE [status |-> "no_valid_rows", rows |-> << >>]
                      ELSE [status |-> "missing_columns", rows |-> << >>]

Extract(p, doc) == IF p = "main" THEN ExtractMain(doc) ELSE ExtractNogui(doc)

\* ------------------------------------------------------------ data frames
\* A frame of readings is a sequence of rows.  A stored frame is kept as the
\* set of its rows: the order of the rows of a parquet file is read only by
\* sort_values, which puts rows of one date in any order.
Key(r) == <<r.site, r.date>>

Keys(S) == {Key(r) : r \in S}

ToSet(df) == Range(df)

RECURSIVE SeqOf(_)
SeqOf(S) ==
    IF S = {} THEN << >>
    ELSE LET r == CHOOSE x \in S : TRUE IN <<r>> \o SeqOf(S \ {r})

\* pd.concat(frames, ignore_index=True)
RECURSIVE ConcatAll(_)
ConcatAll(frames) ==
    IF frames = << >> THEN << >> ELSE Head(frames) \o ConcatAll(Tail(frames))

RECURSIVE Perms(_)
Perms(S) ==
    IF S = {} THEN {<< >>}
    ELSE UNION {{<<x>> \o p : p \in Perms(S \ {x})} : x \in S}

RECURSIVE DateOrders(_, _)
\* the orders of the rows of df that are ascending in Date
DateOrders(df, ds) ==
    IF ds = {} THEN {<< >>}
    ELSE LET d == Min(ds)
             grp == {i \in DOMAIN df : df[i].date = d}
         IN  {p \o q : p \in Perms(grp), q \in DateOrders(df, ds \ {d})}

\* df.sort_values('Date'): the default kind is quicksort, which is not
\* stable, so rows of one date come out in any order
SortValuesDate(df) ==
    {[i \in DOMAIN o |-> df[o[i]]] :
        o \in DateOrders(df, {df[i].date : i \in DOMAIN df})}

RECURSIVE Pick(_, _, _)
Pick(df, i, keep) ==
    IF i > Len(df) THEN << >>
    ELSE (IF i \in keep THEN <<df[i]>> ELSE << >>) \o Pick(df, i + 1, keep)

\* df.drop_duplicates(keep='last'): rows equal in every column
DropDuplicatesAllColumns(df) ==
    Pick(df, 1, {i \in DOMAIN df : \A j \in DOMAIN df : j > i => df[j] # df[i]})

\* df.drop_duplicates(subset=['Site_ID', 'Date'], keep='last')
DropDuplicates(df) ==
    Pick(df, 1, {i \in DOMAIN df :
                    \A j \in DOMAIN df : j > i => Key(df[j]) # Key(df[i])})

\* main.py 141, sites_table_nogui.py 218: the frames the deduplication can
\* give
Deduplicate(df) == {DropDuplicates(s) : s \in SortValuesDate(df)}

\* --------------------------------------------------------------- documents
HeaderStd == <<TxtSite, TxtDate, TxtSolar>>
HeaderNoSolar == <<TxtSite, TxtDate, <<"Load">>>>
HeaderLoose == <<TxtSite, TxtDate, <<"Solar", SP, "Supply">>>>
HeaderPadded == <<<<SP, "Site", SP>>, TxtDate, TxtSolar \o <<SP>>>>
HeaderSiteID == <<TxtSiteID, TxtDate, TxtSolar>>
HeaderBOM == <<<<BOM, "Site">>, TxtDate, TxtSolar>>
TitleRow == <<<<"Daily", SP, "report">>, Blank, Blank>>

DataRow(s, dc, kc) == <<<<s>>, dc, kc>>
Doc(rows) == [corrupt |-> FALSE, rows |-> rows]
CorruptDoc == [corrupt |-> TRUE, rows |-> << >>]

DateCell(d) == <<DateText(d)>>
NumCell(n) == <<ToString(n)>>
BadDate == <<"n/a">>
BadNum == <<"x">>

Preamble(n, row) == [i \in 1..n |-> row]

\* ------------------------------------------------------------------- state
VARIABLES
    prog,       \* the program that is run: "main" or "nogui"
    store,      \* the persisted series: [exists, rows]
    phase,      \* "idle" between runs, "ended" after a run
    before,     \* the store when the run started
    listed,     \* the documents the run found in the monitoring folder
    contrib,    \* per listed document, the readings it added to the new data
    processed,  \* indices of the documents in processed_files
    archived,   \* indices of the documents moved to the archive
    readErr,    \* the run could not read the existing series
    writeErr,   \* the run could not write the series
    outcome,    \* how the run ended
    xdoc,       \* extraction: the document
    xbase,      \* extraction: the same document without preamble rows
    xres,       \* extraction: the result per program
    mseries,    \* matrix: the series the matrix is built from
    mmeta,      \* matrix: the site identifiers of the metadata rows
    matrix,     \* matrix: the rows of final_df
    fleet,      \* analysis: the frame the statistics are computed from
    report      \* analysis: what a program computed from the frame

pvars == <<prog, store, phase, before, listed, contrib, processed, archived,
           readErr, writeErr, outcome>>
xvars == <<xdoc, xbase, xres>>
mvars == <<mseries, mmeta, matrix>>
avars == <<fleet, report>>
vars == <<pvars, xvars, mvars, avars>>

NoStore == [exists |-> FALSE, rows |-> {}]
NoResult == [status |-> "none", rows |-> << >>]

XIdle ==
    /\ xdoc = Doc(<< >>)
    /\ xbase = Doc(<< >>)
    /\ xres = [p \in {"main", "nogui"} |-> NoResult]

MIdle ==
    /\ mseries = {}
    /\ mmeta = {}
    /\ matrix = [by |-> "none", rows |-> {}]

NoFleet == [dates |-> {}, rows |-> << >>]
NoReport == [by |-> "none"]

AIdle ==
    /\ fleet = NoFleet
    /\ report = NoReport

PIdle ==
    /\ prog = "main"
    /\ store = NoStore
    /\ phase = "idle"
    /\ before = NoStore
    /\ listed = << >>
    /\ contrib = << >>
    /\ processed = {}
    /\ archived = {}
    /\ readErr = FALSE
    /\ writeErr = FALSE
    /\ outcome = "none"

\* The documents of a run: one data row under the standard header, and the
\* documents that are not read.
RunRows ==
    {DataRow(s, DateCell(d), kc) :
        s \in Sites, d \in Dates, kc \in {NumCell(n) : n \in 1..MaxKwh} \cup {BadNum}}

RunDocs ==
    {Doc(<<HeaderStd, r>>) : r \in RunRows}
    \cup {Doc(<<HeaderStd, DataRow("A", BadDate, NumCell(1))>>),
          Doc(<<TitleRow, DataRow("A", DateCell(1), NumCell(1))>>),
          Doc(<<HeaderNoSolar, DataRow("A", DateCell(1), NumCell(1))>>),
          Doc(<<HeaderBOM, DataRow("A", DateCell(1), NumCell(1))>>),
          Doc(Preamble(ForcedHeaderRow, TitleRow)
              \o <<HeaderLoose, DataRow("A", DateCell(1), NumCell(1))>>),
          CorruptDoc}

\* The listings of the monitoring folder: up to MaxDocs documents, in the
\* order of the listing (one order per choice of documents).
RunDocSeq == SeqOf(RunDocs)

\* the extraction of each document of RunDocs by each program
RunExtract ==
    [p \in {"main", "nogui"} |-> [d \in RunDocs |-> Extract(p, d)]]

RunLists ==
    {[i \in DOMAIN ix |-> RunDocSeq[ix[i]]] :
        ix \in {jx \in UNION {[1..n -> DOMAIN RunDocSeq] : n \in 0..MaxDocs} :
                  \A i \in DOMAIN jx : i > 1 => jx[i - 1] <= jx[i]}}

\* What can go wrong in a run (at most one of them in one run): the read of
\* the stored series, its write, the moves to the archive.
Faults == {"none", "read", "write", "move"}

Init ==
    /\ prog \in {"main", "nogui"}
    /\ store = NoStore
    /\ phase = "idle"
    /\ before = NoStore
    /\ listed = << >>
    /\ contrib = << >>
    /\ processed = {}
    /\ archived = {}
    /\ readErr = FALSE
    /\ writeErr = FALSE
    /\ outcome = "none"
    /\ XIdle
    /\ MIdle
    /\ AIdle

\* main.py 44-168: one run of sync_and_load_data.  docs: the spreadsheets in
\* the monitoring folder; readOK, writeOK, moveOK: whether the download of the
\* master file, its upload and the moves to the archive succeed.
RunMain(docs, readOK, writeOK, moveOK) ==
    LET master_df == IF store.exists /\ readOK THEN SeqOf(store.rows) ELSE << >>
        res == [i \in DOMAIN docs |-> RunExtract["main"][docs[i]]]
        processed_files == {i \in DOMAIN docs : res[i].status = "ok"}
        new_data == [i \in DOMAIN docs |->
                        IF i \in processed_files THEN res[i].rows ELSE << >>]
        new_df == ConcatAll(new_data)
        combined == IF processed_files # {} THEN master_df \o new_df ELSE master_df
    IN  /\ phase = "idle"
        /\ prog = "main"
        /\ phase' = "ended"
        /\ before' = store
        /\ listed' = docs
        /\ contrib' = new_data
        /\ processed' = processed_files
        /\ readErr' = (store.exists /\ ~readOK)
        /\ IF processed_files = {} /\ master_df = << >>
           THEN /\ store' = store
                /\ archived' = {}
                /\ writeErr' = FALSE
                /\ outcome' = "returned"
           ELSE \E combined_df \in (IF combined # << >>
                                    THEN Deduplicate(combined) ELSE {<< >>}) :
                  IF processed_files # {}
                  THEN IF writeOK
                       THEN /\ store' = [exists |-> TRUE, rows |-> ToSet(combined_df)]
                            /\ archived' = IF moveOK THEN processed_files ELSE {}
                            /\ writeErr' = FALSE
                            /\ outcome' = "returned"
                       ELSE /\ store' = store
                            /\ archived' = {}
                            /\ writeErr' = TRUE
                            /\ outcome' = "raised"
                  ELSE /\ store' = store
                       /\ archived' = {}
                       /\ writeErr' = FALSE
                       /\ outcome' = "returned"
        /\ UNCHANGED <<prog, xvars, mvars, avars>>

\* sites_table_nogui.py 226-483 with load_monitoring_data (112-224), after
\* the metadata is loaded: one run of build_installed_sites_table.
RunNogui(docs, readOK, writeOK, moveOK) ==
    LET has_hist == store.exists /\ readOK
        historical_df == IF has_hist THEN SeqOf(store.rows) ELSE << >>
        res == [i \in DOMAIN docs |-> RunExtract["nogui"][docs[i]]]
        successfully_read_files == {i \in DOMAIN docs : res[i].status = "ok"}
        all_data == [i \in DOMAIN docs |->
                        IF i \in successfully_read_files THEN res[i].rows ELSE << >>]
        new_data_df == ConcatAll(all_data)
    IN  /\ phase = "idle"
        /\ prog = "nogui"
        /\ phase' = "ended"
        /\ before' = store
        /\ listed' = docs
        /\ contrib' = all_data
        /\ processed' = successfully_read_files
        /\ readErr' = (store.exists /\ ~readOK)
        /\ IF successfully_read_files = {}
           THEN \* load_monitoring_data returns the historical frame as it is
                /\ archived' = {}
                /\ IF ~has_hist \/ historical_df = << >>
                   THEN /\ store' = store
                        /\ writeErr' = FALSE
                        /\ outcome' = "false"
                   ELSE /\ store' = IF writeOK
                                    THEN [exists |-> TRUE, rows |-> ToSet(historical_df)]
                                    ELSE store
                        /\ writeErr' = ~writeOK
                        /\ outcome' = "true"
           ELSE \E combined_df \in Deduplicate(historical_df \o new_data_df) :
                  /\ archived' = IF moveOK THEN successfully_read_files ELSE {}
                  /\ store' = IF writeOK
                              THEN [exists |-> TRUE, rows |-> ToSet(combined_df)]
                              ELSE store
                  /\ writeErr' = ~writeOK
                  /\ outcome' = "true"
        /\ UNCHANGED <<prog, xvars, mvars, avars>>

\* the process ends: what a run held in memory is gone
Exit ==
    /\ phase = "ended"
    /\ phase' = "idle"
    /\ before' = NoStore
    /\ listed' = << >>
    /\ contrib' = << >>
    /\ processed' = {}
    /\ archived' = {}
    /\ readErr' = FALSE
    /\ writeErr' = FALSE
    /\ outcome' = "none"
    /\ UNCHANGED <<prog, store, xvars, mvars, avars>>

Run ==
    \E docs \in RunLists :
      \E f \in (IF store.exists THEN Faults ELSE Faults \ {"read"}) :
        \/ RunMain(docs, f # "read", f # "write", f # "move")
        \/ RunNogui(docs, f # "read", f # "write", f # "move")

Next == Run \/ Exit

Spec == Init /\ [][Next]_vars

\* ------------------------------------------- extraction of one document
MentionRow == <<<<"Total", SP>> \o TxtSolar \o <<SP, "report">>, Blank, Blank>>
BlankRow == <<Blank, Blank, Blank>>

XHeaders ==
    {HeaderStd, HeaderPadded, HeaderSiteID, HeaderBOM, HeaderNoSolar, HeaderLoose}

XDateCells == {DateCell(d) : d \in Dates} \cup {BadDate}
XKwhCells == {NumCell(n) : n \in Nums} \cup {BadNum, Blank}
XRows == {DataRow(s, dc, kc) : s \in Sites, dc \in XDateCells, kc \in XKwhCells}
XData == UNION {[1..n -> XRows] : n \in 0..MaxData}

\* documents without preamble: a header row and up to MaxData data rows
RowDocs == {Doc(<<h>> \o data) : h \in XHeaders, data \in XData}

PreRows == {TitleRow, BlankRow, MentionRow}

PreBases ==
    {Doc(<<h, DataRow("A", DateCell(1), NumCell(1))>>) : h \in XHeaders}
    \cup {Doc(<<HeaderStd, DataRow("A", DateCell(1), NumCell(0)),
                DataRow("B", BadDate, BadNum)>>),
          Doc(<<HeaderStd>>)}

\* number of preamble rows of xdoc
NPre == Len(xdoc.rows) - Len(xbase.rows)

InitRows ==
    /\ PIdle
    /\ MIdle
    /\ AIdle
    /\ xbase \in RowDocs
    /\ xdoc = xbase
    /\ xres = [p \in {"main", "nogui"} |-> NoResult]

InitPre ==
    /\ PIdle
    /\ MIdle
    /\ AIdle
    /\ xbase \in PreBases
    /\ xdoc = xbase
    /\ xres = [p \in {"main", "nogui"} |-> NoResult]

\* one more row of preamble above the header (the rows of a preamble are
\* copies of one row)
AddPreamble(row) ==
    /\ NPre < MaxPre
    /\ NPre > 0 => row = xdoc.rows[1]
    /\ xdoc' = Doc(<<row>> \o xdoc.rows)
    /\ xres' = [p \in {"main", "nogui"} |-> NoResult]
    /\ UNCHANGED <<xbase, pvars, mvars, avars>>

\* main.py 87-129 on xdoc
DoExtractMain ==
    /\ xres["main"] = NoResult
    /\ xres' = [xres EXCEPT !["main"] = ExtractMain(xdoc)]
    /\ UNCHANGED <<xdoc, xbase, pvars, mvars, avars>>

\* sites_table_nogui.py 131-202 on xdoc
DoExtractNogui ==
    /\ xres["nogui"] = NoResult
    /\ xres' = [xres EXCEPT !["nogui"] = ExtractNogui(xdoc)]
    /\ UNCHANGED <<xdoc, xbase, pvars, mvars, avars>>

NextRows == DoExtractMain \/ DoExtractNogui

NextPre == (\E row \in PreRows : AddPreamble(row)) \/ DoExtractMain \/ DoExtractNogui

SpecRows == InitRows /\ [][NextRows]_vars

SpecPre == InitPre /\ [][NextPre]_vars

\* ------------------------------------------------------------ site matrix
MetaSites == {"A", "B", "C"}

\* the series with one value per key over Sites and Dates
SeriesOver(keys) ==
    UNION {{{Reading(k[1], k[2], f[k]) : k \in ks} : f \in [ks -> Nums \cup {NaN}]} :
             ks \in SUBSET keys}

AllSeries == SeriesOver(Sites \X Dates)

DateCols(series) == {r.date : r \in series}

\* main.py 167, sites_table_nogui.py 339:
\* pivot(index='Site_ID', columns='Date', values='Solar_kWh')
Pivot(series) ==
    {[site |-> s,
      vals |-> [d \in DateCols(series) |->
                  IF \E r \in series : Key(r) = <<s, d>>
                  THEN (CHOOSE r \in series : Key(r) = <<s, d>>).kwh
                  ELSE NaN]] : s \in {r.site : r \in series}}

OuterMerge(meta, pivot_df, cols) ==
    {q \in pivot_df : q.site \in meta}
    \cup {[site |-> m, vals |-> [d \in cols |-> NaN]] :
             m \in {x \in meta : \A q \in pivot_df : q.site # x}}
    \cup {q \in pivot_df : q.site \notin meta}

InnerMerge(meta, pivot_df, cols) ==
    {q \in pivot_df : q.site \in meta}

\* main.py 191, sites_table_nogui.py 346:
\* meta_df.merge(pivot_df, on='Site_ID', how='left')
LeftMerge(meta, pivot_df, cols) ==
    {q \in pivot_df : q.site \in meta}
    \cup {[site |-> m, vals |-> [d \in cols |-> NaN]] :
             m \in {x \in meta : \A q \in pivot_df : q.site # x}}

InitMatrix ==
    /\ PIdle
    /\ XIdle
    /\ AIdle
    /\ mseries \in AllSeries \ {{}}
    /\ mmeta \in SUBSET MetaSites
    /\ matrix = [by |-> "none", rows |-> {}]

\* main.py 170-208, on the pivot sync_and_load_data returns for a series
\* that is not empty
ProcessData ==
    /\ matrix.by = "none"
    /\ matrix' = [by |-> "main",
                  rows |-> LeftMerge(mmeta, Pivot(mseries), DateCols(mseries))]
    /\ UNCHANGED <<mseries, mmeta, pvars, xvars, avars>>

\* sites_table_nogui.py 337-347
BuildTable ==
    /\ matrix.by = "none"
    /\ matrix' = [by |-> "nogui",
                  rows |-> LeftMerge(mmeta, Pivot(mseries), DateCols(mseries))]
    /\ UNCHANGED <<mseries, mmeta, pvars, xvars, avars>>

NextMatrix == ProcessData \/ BuildTable

SpecMatrix == InitMatrix /\ [][NextMatrix]_vars

\* ------------------------------------------------------------------ numbers
\* A float is a pair <<n, d>> with d >= 0: the number n/d when d > 0, nan when
\* n = 0 and d = 0, inf and -inf when d = 0 and n = 1 or n = -1.
NaNF == <<0, 0>>
InfF == <<1, 0>>

Abs(n) == IF n < 0 THEN -n ELSE n
Sign(n) == IF n < 0 THEN -1 ELSE IF n = 0 THEN 0 ELSE 1

RECURSIVE GCD(_, _)
GCD(a, b) == IF b = 0 THEN a ELSE GCD(b, a % b)

\* the float n/d in lowest terms; division by zero as numpy does it
Fl(n, d) ==
    IF d = 0 THEN <<Sign(n), 0>>
    ELSE LET g == GCD(Abs(n), Abs(d))
         IN  <<(Sign(d) * n) \div g, Abs(d) \div g>>

FInt(n) == <<n, 1>>
IsNaNF(x) == x = NaNF
IsFinite(x) == x[2] > 0

\* x / y of two floats that are numbers or nan
FDiv(x, y) ==
    IF IsNaNF(x) \/ IsNaNF(y) THEN NaNF
    ELSE IF ~IsFinite(x) THEN <<x[1] * (IF y[1] < 0 THEN -1 ELSE 1), 0>>
    ELSE IF ~IsFinite(y) THEN FInt(0)
    ELSE Fl(x[1] * y[2], x[2] * y[1])

FMul(x, y) ==
    IF IsNaNF(x) \/ IsNaNF(y) THEN NaNF
    ELSE IF IsFinite(x) /\ IsFinite(y) THEN Fl(x[1] * y[1], x[2] * y[2])
    ELSE Fl(Sign(x[1]) * Sign(y[1]), 0)

FAdd(x, y) ==
    IF IsNaNF(x) \/ IsNaNF(y) THEN NaNF
    ELSE IF IsFinite(x) /\ IsFinite(y) THEN Fl(x[1] * y[2] + y[1] * x[2], x[2] * y[2])
    ELSE IF ~IsFinite(x) /\ ~IsFinite(y) /\ x # y THEN NaNF
    ELSE IF ~IsFinite(x) THEN x ELSE y

FSub(x, y) == FAdd(x, <<-y[1], y[2]>>)

\* x < y and x <= y as Python and JavaScript compare floats: FALSE with nan
FLess(x, y) == x[1] * y[2] < y[1] * x[2]
FLeq(x, y) == ~IsNaNF(x) /\ ~IsNaNF(y) /\ x[1] * y[2] <= y[1] * x[2]

\* Series.fillna(0)
FillNa(x) == IF IsNaNF(x) THEN FInt(0) ELSE x

\* the float of a matrix cell
CellF(v) == IF v = NaN THEN NaNF ELSE FInt(v)

\* pd.notna(v) and v > 0 of a matrix cell
Positive(v) == v # NaN /\ v > 0

RECURSIVE SumSet(_, _)
SumSet(f, S) ==
    IF S = {} THEN 0
    ELSE LET x == CHOOSE y \in S : TRUE IN f[x] + SumSet(f, S \ {x})

\* ----------------------------------------------------------------- calendar
\* A date is its day number, day 1 being 2023-01-01; the months of 2023,
\* 2024 and 2025.
MonthLens ==
    <<31, 28, 31, 30, 31, 30, 31, 31, 30, 31, 30, 31,
      31, 29, 31, 30, 31, 30, 31, 31, 30, 31, 30, 31,
      31, 28, 31, 30, 31, 30, 31, 31, 30, 31, 30, 31>>

RECURSIVE MonthStart(_)
MonthStart(m) == IF m = 1 THEN 1 ELSE MonthStart(m - 1) + MonthLens[m - 1]

MonthStarts == [m \in DOMAIN MonthLens |-> MonthStart(m)]

MonthOf(day) ==
    CHOOSE m \in DOMAIN MonthLens :
        MonthStarts[m] <= day /\ day < MonthStarts[m] + MonthLens[m]

\* date + pd.DateOffset(months=k): the same day of the month k months on,
\* or the last day of that month when it is shorter
AddMonths(day, k) ==
    LET m == MonthOf(day)
        dom == day - MonthStarts[m] + 1
        m2 == m + k
    IN  IF m2 = 0 THEN dom - 31    \* December 2022, the month before day 1
        ELSE MonthStarts[m2] + Min({dom, MonthLens[m2]}) - 1

\* (later - earlier).days / 365.25
YearsBetween(earlier, later) == Fl(4 * (later - earlier), 1461)

\* -------------------------------------------------------- rolling statistics
\* A frame has the date columns `dates` and the rows `rows`; a row has the
\* site, its capacity Array_Size_kWp (a float), its group and per date column
\* the kWh value or NaN.
Row(s, cap, grp, vals) == [site |-> s, cap |-> cap, grp |-> grp, vals |-> vals]

\* the latest date of the site's own readings
LatestDateOfSite(vals, dates) ==
    IF \E d \in dates : vals[d] # NaN
    THEN Max({d \in dates : vals[d] # NaN}) ELSE Max(dates)

\* sites_table_nogui.py 360, main.py 195, dashboard_generator.py 119,
\* mobile_generator.py 70: the latest date used for a row is the last date
\* column of the frame, whatever the row holds
LatestDate(vals, dates) == Max(dates)

\* the date columns from latest_date - W days on
WindowCols(dates, latest_date, W) == {d \in dates : d >= latest_date - W}

Present(vals, cols) == {d \in cols : vals[d] # NaN}

\* final_df[cols].sum(axis=1): absent values are skipped
RowSum(vals, cols) == SumSet(vals, Present(vals, cols))

\* final_df[cols].mean(axis=1, skipna=True): nan when no value is present
RowMean(vals, cols) ==
    IF Present(vals, cols) = {} THEN NaNF
    ELSE Fl(RowSum(vals, cols), Cardinality(Present(vals, cols)))

\* sites_table_nogui.py 375-379: the yield, None unless the capacity is > 0
YieldNogui(avg, cap) ==
    IF ~IsNaNF(cap) /\ FLess(FInt(0), cap) THEN FDiv(avg, cap) ELSE NaNF

\* main.py 199: (mean / Array_Size_kWp).fillna(0)
YieldMain(avg, cap) == FillNa(FDiv(avg, cap))

\* the first date with a reading, zero readings included
FirstReadingDate(vals, dates) ==
    LET pos == {d \in dates : vals[d] # NaN}
    IN  IF pos = {} THEN 0 ELSE Min(pos)

\* get_first_production_date / get_first_date: 0 stands for None
FirstProductionDate(vals, dates) ==
    LET pos == {d \in dates : Positive(vals[d])}
    IN  IF pos = {} THEN 0 ELSE Min(pos)

\* sites_table_nogui.py 358-420: the summary columns of one row
StatsRowNogui(r, dates) ==
    LET latest_date == LatestDate(r.vals, dates)
        cols_7d == WindowCols(dates, latest_date, 7)
        cols_30d == WindowCols(dates, latest_date, 30)
        cols_90d == WindowCols(dates, latest_date, 90)
    IN  [site |-> r.site,
         Prod_7d_kWh |-> RowSum(r.vals, cols_7d),
         Avg_Daily_7d_kWh |-> RowMean(r.vals, cols_7d),
         Avg_Yield_7d_kWh_kWp |-> YieldNogui(RowMean(r.vals, cols_7d), r.cap),
         Prod_30d_kWh |-> RowSum(r.vals, cols_30d),
         Avg_Daily_30d_kWh |-> RowMean(r.vals, cols_30d),
         Avg_Yield_30d_kWh_kWp |-> YieldNogui(RowMean(r.vals, cols_30d), r.cap),
         Prod_90d_kWh |-> RowSum(r.vals, cols_90d),
         Avg_Daily_90d_kWh |-> RowMean(r.vals, cols_90d),
         Avg_Yield_90d_kWh_kWp |-> YieldNogui(RowMean(r.vals, cols_90d), r.cap),
         Total_Production_kWh |-> RowSum(r.vals, dates),
         Days_With_Data |-> Cardinality(Present(r.vals, dates)),
         Avg_Daily_Production_kWh |-> RowMean(r.vals, dates),
         Avg_Specific_Yield_kWh_kWp_day |-> YieldNogui(RowMean(r.vals, dates), r.cap),
         First_Production_Date |-> FirstProductionDate(r.vals, dates)]

\* main.py 193-206: the summary columns of one row
StatsRowMain(r, dates) ==
    LET latest_date == LatestDate(r.vals, dates)
        cols_30d == WindowCols(dates, latest_date, 30)
    IN  [site |-> r.site,
         Prod_30d_kWh |-> RowSum(r.vals, cols_30d),
         Avg_Yield_30d_kWh_kWp |-> YieldMain(RowMean(r.vals, cols_30d), r.cap),
         Total_Production |-> RowSum(r.vals, dates),
         First_Production_Date |-> FirstProductionDate(r.vals, dates)]

\* dashboard_generator.py 186-194: daily_data of one row
DailyData(r, dates) ==
    [d \in Present(r.vals, dates) |->
        [solar_supply_kwh |-> r.vals[d],
         specific_yield |->
            IF ~IsNaNF(r.cap) /\ FLess(FInt(0), r.cap)
            THEN FDiv(FInt(r.vals[d]), r.cap) ELSE FInt(0)]]

\* the frames of the rolling statistics: one site with a reading on each of
\* `span` consecutive days ending at the latest date, but for the days of
\* `holes`, where the value is absent
StatSpans == {1, 7, 8, 30, 31, 90, 91, MaxDays}
StatCaps == {NaNF, FInt(0), FInt(-5), FInt(10)}
StatPatterns == {"zero", "one", "day"}
StatBack == {0, 7, 30, 90}

StatValue(pat, d) == IF pat = "zero" THEN 0 ELSE IF pat = "one" THEN 1 ELSE d

StatFrame(span, pat, holes, cap) ==
    LET dates == (MaxDays - span + 1)..MaxDays
    IN  [dates |-> dates,
         rows |-> <<Row("A", cap, "g",
                        [d \in dates |-> IF d \in holes THEN NaN
                                         ELSE StatValue(pat, d)])>>]

StatFrames ==
    {StatFrame(span, pat, holes, cap) :
        span \in StatSpans, pat \in StatPatterns, cap \in StatCaps,
        holes \in {{}} \cup {{MaxDays - k} : k \in StatBack}}

InitStats ==
    /\ PIdle
    /\ XIdle
    /\ MIdle
    /\ fleet \in StatFrames
    /\ report = NoReport

\* sites_table_nogui.py 354-420: the summary statistics of the frame
StatsNogui ==
    /\ report = NoReport
    /\ report' = [by |-> "nogui",
                  rows |-> [i \in DOMAIN fleet.rows |->
                               StatsRowNogui(fleet.rows[i], fleet.dates)]]
    /\ UNCHANGED <<fleet, pvars, xvars, mvars>>

\* main.py 193-208: the statistics of process_data
StatsMain ==
    /\ report = NoReport
    /\ report' = [by |-> "main",
                  rows |-> [i \in DOMAIN fleet.rows |->
                               StatsRowMain(fleet.rows[i], fleet.dates)]]
    /\ UNCHANGED <<fleet, pvars, xvars, mvars>>

\* dashboard_generator.py 183-242: the daily data of the sites
DailyDashboard ==
    /\ report = NoReport
    /\ report' = [by |-> "daily",
                  rows |-> [i \in DOMAIN fleet.rows |->
                               DailyData(fleet.rows[i], fleet.dates)]]
    /\ UNCHANGED <<fleet, pvars, xvars, mvars>>

NextStats == StatsNogui \/ StatsMain \/ DailyDashboard

SpecStats == InitStats /\ [][NextStats]_vars

\* ------------------------------------------------------------- degradation
\* the values of a list in ascending order
RECURSIVE SortAsc(_)
SortAsc(vs) ==
    IF vs = << >> THEN << >>
    ELSE LET i == CHOOSE j \in DOMAIN vs : \A k \in DOMAIN vs : vs[j] <= vs[k]
         IN  <<vs[i]>> \o SortAsc([k \in 1..(Len(vs) - 1) |->
                                      IF k < i THEN vs[k] ELSE vs[k + 1]])

\* np.percentile(values, 95): linear interpolation between the two values
\* around position 0.95 * (n - 1) of the sorted list
Percentile95(vs) ==
    LET v == SortAsc(vs)
        h == 19 * (Len(v) - 1)
        lo == (h \div 20) + 1
        f == h % 20
    IN  IF f = 0 THEN FInt(v[lo])
        ELSE Fl(v[lo] * (20 - f) + v[lo + 1] * f, 20)

\* round(x, k) of a number, p being 10^k: the nearest multiple of 1/p,
\* the even one of two that are equally near
RoundTo(x, p) ==
    LET t == 2 * p * x[1]
        q == t \div (2 * x[2])
        r == t % (2 * x[2])
        up == r > x[2] \/ (r = x[2] /\ q % 2 = 1)
    IN  Fl(IF up THEN q + 1 ELSE q, p)

Round1(x) == RoundTo(x, 10)
Round2(x) == RoundTo(x, 100)

\* the positive values of the row in the date columns cols, in column order
RECURSIVE PositiveValues(_, _)
PositiveValues(vals, cols) ==
    IF cols = {} THEN << >>
    ELSE LET d == Min(cols)
         IN  (IF Positive(vals[d]) THEN <<vals[d]>> ELSE << >>)
                 \o PositiveValues(vals, cols \ {d})

\* the last 3 date columns, or all when there are fewer
Last3(dates) == {d \in dates : Cardinality({e \in dates : e > d}) < 3}

\* expected degradation after `years` with the rates r1 (first year) and r2
ExpectedDegradation(years, r1, r2) ==
    IF FLeq(years, FInt(1)) THEN FMul(years, r1)
    ELSE FAdd(r1, FMul(FSub(years, FInt(1)), r2))

\* the degradation taken relative to the latest yield
ActualDegradationOfLatest(initial, latest) ==
    IF FLess(FInt(0), initial)
    THEN FMul(FDiv(FSub(initial, latest), latest), FInt(100))
    ELSE FInt(0)

\* the degradation when an improvement is reported as no degradation
ActualDegradationClamped(initial, latest) ==
    IF FLess(FInt(0), initial) /\ FLess(latest, initial)
    THEN FMul(FDiv(FSub(initial, latest), initial), FInt(100))
    ELSE FInt(0)

\* ((initial - latest) / initial * 100) if initial > 0 else 0
ActualDegradation(initial, latest) ==
    IF FLess(FInt(0), initial)
    THEN FMul(FDiv(FSub(initial, latest), initial), FInt(100))
    ELSE FInt(0)

NoRecord == [made |-> FALSE]

\* the lists of a record when the numeric lists do not ask for recent data
CategoriesJSNumeric(has_recent_data, actual) ==
    {c \in {"Offline", "High", "Medium", "Low", "Better"} :
        \/ c = "Offline" /\ ~has_recent_data
        \/ c = "High" /\ FLess(FInt(50), actual)
        \/ c = "Medium" /\ FLeq(FInt(30), actual) /\ FLeq(actual, FInt(50))
        \/ c = "Low" /\ FLeq(FInt(0), actual) /\ FLess(actual, FInt(30))
        \/ c = "Better" /\ FLess(actual, FInt(0))}

\* the lists of a record when the Medium list ends below 50
CategoriesJSOpen(has_recent_data, actual) ==
    {c \in {"Offline", "High", "Medium", "Low", "Better"} :
        \/ c = "Offline" /\ ~has_recent_data
        \/ /\ has_recent_data
           /\ \/ c = "High" /\ FLess(FInt(50), actual)
              \/ c = "Medium" /\ FLeq(FInt(30), actual) /\ FLess(actual, FInt(50))
              \/ c = "Low" /\ FLeq(FInt(0), actual) /\ FLess(actual, FInt(30))
              \/ c = "Better" /\ FLess(actual, FInt(0))}

\* dashboard_generator.py 1112-1119: the lists a record is put in
CategoriesJS(has_recent_data, actual) ==
    {c \in {"Offline", "High", "Medium", "Low", "Better"} :
        \/ c = "Offline" /\ ~has_recent_data
        \/ /\ has_recent_data
           /\ \/ c = "High" /\ FLess(FInt(50), actual)
              \/ c = "Medium" /\ FLeq(FInt(30), actual) /\ FLeq(actual, FInt(50))
              \/ c = "Low" /\ FLeq(FInt(0), actual) /\ FLess(actual, FInt(30))
              \/ c = "Better" /\ FLess(actual, FInt(0))}

\* dashboard_generator.py 101-176 and 1106-1119: the degradation record of
\* one row of the frame and the lists it is shown in
DegradationDashboard(r, dates) ==
    LET first_date == FirstProductionDate(r.vals, dates)
        latest_date == LatestDate(r.vals, dates)
        commissioning_cols ==
            {d \in dates : first_date <= d /\ d < AddMonths(first_date, 1)}
        last_month_cols ==
            {d \in dates : AddMonths(latest_date, -1) <= d /\ d <= latest_date}
        commissioning_values == PositiveValues(r.vals, commissioning_cols)
        last_month_values == PositiveValues(r.vals, last_month_cols)
        initial_95th == FDiv(Percentile95(commissioning_values), r.cap)
        latest_95th == FDiv(Percentile95(last_month_values), r.cap)
        years_elapsed == YearsBetween(first_date, latest_date)
        expected_degradation ==
            ExpectedDegradation(years_elapsed, Fl(3, 2), Fl(2, 5))
        actual_degradation == ActualDegradation(initial_95th, latest_95th)
        has_recent_data == \E d \in Last3(dates) : Positive(r.vals[d])
    IN  IF IsNaNF(r.cap) \/ r.cap = FInt(0) THEN NoRecord
        ELSE IF first_date = 0 THEN NoRecord
        ELSE IF commissioning_values = << >> \/ last_month_values = << >>
        THEN NoRecord
        ELSE [made |-> TRUE,
              initial_yield_95th |-> initial_95th,
              latest_yield_95th |-> latest_95th,
              years_elapsed |-> years_elapsed,
              expected_degradation |-> expected_degradation,
              actual_degradation |-> actual_degradation,
              performance_vs_expected |->
                  FSub(expected_degradation, actual_degradation),
              has_recent_data |-> has_recent_data,
              commissioned_date |-> first_date,
              lists |-> CategoriesJS(has_recent_data, actual_degradation)]

\* mobile_generator.py 98-195: the metadata of one row of the frame
DegradationMobile(r, dates) ==
    LET size == FillNa(r.cap)
        first_date == FirstProductionDate(r.vals, dates)
        latest_date == LatestDate(r.vals, dates)
        is_online == \E d \in Last3(dates) : Positive(r.vals[d])
        comm_end == AddMonths(first_date, 1)
        last_start == AddMonths(latest_date, -1)
        c_vals == PositiveValues(r.vals,
                      {d \in dates : first_date <= d /\ d <= comm_end})
        l_vals == PositiveValues(r.vals,
                      {d \in dates : last_start <= d /\ d <= latest_date})
        init_95 == FDiv(Percentile95(c_vals), size)
        curr_95 == FDiv(Percentile95(l_vals), size)
        years == YearsBetween(first_date, latest_date)
        expected == ExpectedDegradation(years, FInt(3), Fl(7, 10))
        actual == ActualDegradation(init_95, curr_95)
        computed == is_online /\ first_date # 0 /\ c_vals # << >> /\ l_vals # << >>
    IN  IF FLeq(size, FInt(0)) THEN NoRecord
        ELSE [made |-> TRUE,
              online |-> is_online,
              computed |-> computed,
              init_95 |-> IF computed THEN init_95 ELSE NaNF,
              curr_95 |-> IF computed THEN curr_95 ELSE NaNF,
              actual |-> IF computed THEN actual ELSE FInt(0),
              deg_act |-> IF computed THEN Round1(actual) ELSE FInt(0),
              deg_exp |-> IF computed THEN Round1(expected) ELSE FInt(0),
              deg_cat |->
                  IF ~is_online THEN "Offline"
                  ELSE IF ~computed THEN "Unknown"
                  ELSE IF FLess(FInt(50), actual) THEN "High"
                  ELSE IF FLeq(FInt(30), actual) THEN "Medium"
                  ELSE IF FLeq(FInt(0), actual) THEN "Low"
                  ELSE "Better"]

\* main.py 709-713: the list a record is put in
CategoryJS(has_recent_data, actual) ==
    IF ~has_recent_data THEN "Offline"
    ELSE IF FLess(FInt(50), actual) THEN "High"
    ELSE IF FLeq(FInt(30), actual) THEN "Medium"
    ELSE IF FLeq(FInt(0), actual) THEN "Low"
    ELSE "Better"

\* main.py 313-357 and 709-713: the degradation record of one row of the
\* frame and the list it is shown in
DegradationMain(r, dates) ==
    LET first_dt == FirstProductionDate(r.vals, dates)
        latest_dt == LatestDate(r.vals, dates)
        comm_end == first_dt + 30
        last_start == latest_dt - 30
        c_vals == PositiveValues(r.vals,
                      {d \in dates : first_dt <= d /\ d <= comm_end})
        l_vals == PositiveValues(r.vals,
                      {d \in dates : last_start <= d /\ d <= latest_dt})
        init_95 == FDiv(Percentile95(c_vals), r.cap)
        curr_95 == FDiv(Percentile95(l_vals), r.cap)
        years == YearsBetween(first_dt, latest_dt)
        exp == ExpectedDegradation(years, Fl(3, 2), Fl(2, 5))
        act == ActualDegradation(init_95, curr_95)
        has_recent == \E d \in Last3(dates) : Positive(r.vals[d])
    IN  IF IsNaNF(r.cap) \/ r.cap = FInt(0) THEN NoRecord
        ELSE IF first_dt = 0 THEN NoRecord
        ELSE IF Len(c_vals) > 5 /\ Len(l_vals) > 5
        THEN [made |-> TRUE,
              init_95 |-> init_95,
              curr_95 |-> curr_95,
              actual_degradation |-> act,
              expected_degradation |-> exp,
              performance_vs_expected |-> FSub(exp, act),
              years_elapsed |-> years,
              has_recent_data |-> has_recent,
              lists |-> {CategoryJS(has_recent, act)}]
        ELSE NoRecord

\* the date columns of the degradation frames: 2023-01-01, 2023-01-31,
\* 2023-02-01, 2024-12-01, 2024-12-30, 2024-12-31 and 2025-01-01
DegDays == <<1, 31, 32, 701, 730, 731, 732>>
DegValues ==
    <<{NaN, 0, 44, 50}, {NaN, 44, 50}, {NaN, 60}, {NaN, 44, 50},
      {NaN, 0, 44}, {NaN, 0, 44}, {NaN, 0, 20, 25, 35, 44, 55}>>
DegCaps == {NaNF, FInt(0), FInt(-10), FInt(10)}

DegFrames ==
    LET dates == {DegDays[i] : i \in DOMAIN DegDays}
        col(d) == CHOOSE i \in DOMAIN DegDays : DegDays[i] = d
    IN  {[dates |-> dates, rows |-> <<Row("A", cap, "g", vals)>>] :
            cap \in DegCaps,
            vals \in {f \in [dates -> {NaN, 0, 20, 25, 35, 44, 50, 55, 60}] :
                         \A d \in dates : f[d] \in DegValues[col(d)]}}

\* frames with up to 6 readings in a row from 2023-01-01 on and up to 6 in
\* a row ending on 2025-01-01 or 3 days before it, with and without
\* readings 30 days and a month after the first date and 30 days before the
\* latest date
DenseDays == (1..6) \cup {31, 32, 702} \cup (724..732)
DenseFrames ==
    {[dates |-> DenseDays,
      rows |-> <<Row("A", cap, "g",
                     [d \in DenseDays |->
                         IF d <= 6 THEN (IF d <= nc THEN 50 ELSE NaN)
                         ELSE IF d = 31 THEN x31
                         ELSE IF d = 32 THEN x32
                         ELSE IF d = 702 THEN x702
                         ELSE IF d > e - nl /\ d <= e THEN 44 ELSE NaN])>>] :
        cap \in {NaNF, FInt(0), FInt(10)},
        nc \in {1, 4, 5, 6}, nl \in {0, 1, 4, 5, 6}, e \in {729, 732},
        x31 \in {NaN, 60}, x32 \in {NaN, 60}, x702 \in {NaN, 44}}

InitDeg ==
    /\ PIdle
    /\ XIdle
    /\ MIdle
    /\ fleet \in DegFrames \cup DenseFrames
    /\ report = NoReport

\* dashboard_generator.py 94-176: the degradation analysis of the frame
DegradeDashboard ==
    /\ report = NoReport
    /\ report' = [by |-> "dashboard",
                  rows |-> [i \in DOMAIN fleet.rows |->
                               DegradationDashboard(fleet.rows[i], fleet.dates)]]
    /\ UNCHANGED <<fleet, pvars, xvars, mvars>>

\* mobile_generator.py 98-196: the metadata of the sites of the frame
DegradeMobile ==
    /\ report = NoReport
    /\ report' = [by |-> "mobile",
                  rows |-> [i \in DOMAIN fleet.rows |->
                               DegradationMobile(fleet.rows[i], fleet.dates)]]
    /\ UNCHANGED <<fleet, pvars, xvars, mvars>>

\* main.py 313-357: the degradation calculation of generate_html
DegradeMain ==
    /\ report = NoReport
    /\ report' = [by |-> "main_html",
                  rows |-> [i \in DOMAIN fleet.rows |->
                               DegradationMain(fleet.rows[i], fleet.dates)]]
    /\ UNCHANGED <<fleet, pvars, xvars, mvars>>

NextDeg ==
    DegradeDashboard \/ DegradeMobile \/ DegradeMain \/ StatsNogui \/ StatsMain

SpecDeg == InitDeg /\ [][NextDeg]_vars

\* ------------------------------------------------------- fleet summaries
\* Series.sum(): the sum of the numbers f[i], i in S, nan skipped
RECURSIVE FSumOver(_, _)
FSumOver(f, S) ==
    IF S = {} THEN FInt(0)
    ELSE LET i == CHOOSE j \in S : TRUE
         IN  IF IsNaNF(f[i]) THEN FSumOver(f, S \ {i})
             ELSE FAdd(f[i], FSumOver(f, S \ {i}))

\* Series.mean(): the mean of the numbers f[i], i in S, nan skipped
MeanOver(f, S) ==
    LET P == {i \in S : ~IsNaNF(f[i])}
    IN  IF P = {} THEN NaNF ELSE FDiv(FSumOver(f, P), FInt(Cardinality(P)))

\* all(pd.isna(row[d]) or row[d] == 0 for d in last_3_days)
ZeroProduction(r, dates) ==
    \A d \in Last3(dates) : r.vals[d] = NaN \/ r.vals[d] = 0

\* dashboard_generator.py 243-304: the fleet statistics of the frame
FleetDashboard(f) ==
    LET I == DOMAIN f.rows
        st == [i \in I |-> StatsRowNogui(f.rows[i], f.dates)]
        y == [i \in I |-> st[i].Avg_Yield_30d_kWh_kWp]
        cap == [i \in I |-> f.rows[i].cap]
        total_capacity == FSumOver(cap, I)
        members(g) == {i \in I : f.rows[i].grp = g}
    IN  [by |-> "fleet_dashboard",
         sites_with_data |-> Cardinality({i \in I : st[i].Days_With_Data > 0}),
         avg_yield_30d |->
             IF FLess(FInt(0), total_capacity)
             THEN FDiv(FSumOver([i \in I |-> FMul(y[i], cap[i])], I),
                       total_capacity)
             ELSE MeanOver(y, I),
         critical_alerts |-> {i \in I : ZeroProduction(f.rows[i], f.dates)},
         excellent |-> {i \in I : FLess(Fl(9, 2), y[i])},
         good |-> {i \in I : FLeq(Fl(7, 2), y[i]) /\ FLeq(y[i], Fl(9, 2))},
         fair |-> {i \in I : FLeq(Fl(5, 2), y[i]) /\ FLess(y[i], Fl(7, 2))},
         poor |-> {i \in I : FLess(y[i], Fl(5, 2))},
         yield |-> y,
         groups |-> [g \in {f.rows[i].grp : i \in I} |->
                        [site_count |-> Cardinality(members(g)),
                         total_capacity |-> FSumOver(cap, members(g)),
                         avg_yield |-> MeanOver(y, members(g))]]]

\* main.py 210-262: the statistics of generate_html for a frame df that
\* carries the column Days_With_Data
FleetMain(f) ==
    LET I == DOMAIN f.rows
        st == [i \in I |-> StatsRowMain(f.rows[i], f.dates)]
        Days_With_Data ==
            [i \in I |-> Cardinality(Present(f.rows[i].vals, f.dates))]
        y == [i \in I |-> st[i].Avg_Yield_30d_kWh_kWp]
        cap == [i \in I |-> f.rows[i].cap]
        total_capacity == FSumOver(cap, I)
        valid == {i \in I : FLess(FInt(0), cap[i])}
        members(g) == {i \in valid : f.rows[i].grp = g}
    IN  [by |-> "fleet_main",
         sites_with_data |-> Cardinality({i \in I : Days_With_Data[i] > 0}),
         avg_yield_30d |->
             IF FLess(FInt(0), total_capacity)
             THEN FDiv(FSumOver([i \in I |->
                                    FMul(FillNa(y[i]), FillNa(cap[i]))], I),
                       total_capacity)
             ELSE FInt(0),
         critical_alerts |->
             {i \in I : Days_With_Data[i] > 0
                        /\ ZeroProduction(f.rows[i], f.dates)},
         excellent |-> {i \in I : FLess(Fl(9, 2), y[i])},
         good |-> {i \in I : FLess(Fl(7, 2), y[i]) /\ FLeq(y[i], Fl(9, 2))},
         fair |-> {i \in I : FLess(Fl(5, 2), y[i]) /\ FLeq(y[i], Fl(7, 2))},
         poor |-> {i \in I : FLeq(y[i], Fl(5, 2))},
         yield |-> y,
         groups |-> [g \in {f.rows[i].grp : i \in valid} |->
                        [site_count |-> Cardinality(members(g)),
                         total_capacity |-> FSumOver(cap, members(g)),
                         avg_yield |->
                             FDiv(FSumOver([i \in I |-> FMul(y[i], cap[i])],
                                           members(g)),
                                  FSumOver(cap, members(g)))]]]

\* mobile_generator.py 76-83, 98-151 and 216-219: the fleet statistics
FleetMobile(f) ==
    LET I == DOMAIN f.rows
        st == [i \in I |-> StatsRowNogui(f.rows[i], f.dates)]
        y == [i \in I |-> st[i].Avg_Yield_30d_kWh_kWp]
        cap == [i \in I |-> f.rows[i].cap]
        shown == {i \in I : ~FLeq(FillNa(cap[i]), FInt(0))}
        yld == [i \in I |-> Round2(FillNa(y[i]))]
        is_online(i) == \E d \in Last3(f.dates) : Positive(f.rows[i].vals[d])
        members(g) == {i \in I : f.rows[i].grp = g}
    IN  [by |-> "fleet_mobile",
         online_sites |-> Cardinality({i \in shown : is_online(i)}),
         avg_yield_30d |-> MeanOver(y, I),
         critical_alerts |-> {i \in shown : ~is_online(i)},
         excellent |-> {i \in shown : FLess(Fl(9, 2), yld[i])},
         good |-> {i \in shown : ~FLess(Fl(9, 2), yld[i])
                                 /\ FLeq(Fl(7, 2), yld[i])},
         fair |-> {i \in shown : ~FLeq(Fl(7, 2), yld[i])
                                 /\ FLeq(Fl(5, 2), yld[i])},
         poor |-> {i \in shown : ~FLeq(Fl(5, 2), yld[i])},
         yield |-> y,
         groups |-> [g \in {f.rows[i].grp : i \in I} |->
                        [site_count |-> Cardinality(members(g)),
                         total_capacity |-> FSumOver(cap, members(g)),
                         avg_yield |-> MeanOver(y, members(g))]]]

\* the frames of the fleet summaries: two sites, each with one value on the
\* dates of a pattern; of the dates, the first is outside the 30-day
\* window, the second inside it and the last three are the recent ones
FleetDays == {MaxDays - 40, MaxDays - 20, MaxDays - 2, MaxDays - 1, MaxDays}
FleetCaps == {NaNF, FInt(0), FInt(10), FInt(90)}
FleetValues == {0, 25, 35, 45, 50, 270}
FleetPatterns ==
    {{}, {MaxDays - 40}, {MaxDays - 40, MaxDays - 20}, {MaxDays}, FleetDays}

FleetRows(s) ==
    {Row(s, cap, grp, [d \in FleetDays |-> IF d \in pat THEN v ELSE NaN]) :
        cap \in FleetCaps, grp \in {"g", "h"},
        v \in FleetValues, pat \in FleetPatterns}

FleetFrames ==
    {[dates |-> FleetDays, rows |-> <<a, b>>] :
        a \in {r \in FleetRows("A") : r.grp = "g"}, b \in FleetRows("B")}

InitFleet ==
    /\ PIdle
    /\ XIdle
    /\ MIdle
    /\ fleet \in FleetFrames
    /\ report = NoReport

\* dashboard_generator.py 243-304
SummariseDashboard ==
    /\ report = NoReport
    /\ report' = FleetDashboard(fleet)
    /\ UNCHANGED <<fleet, pvars, xvars, mvars>>

\* main.py 210-262
SummariseMain ==
    /\ report = NoReport
    /\ report' = FleetMain(fleet)
    /\ UNCHANGED <<fleet, pvars, xvars, mvars>>

\* mobile_generator.py 76-219
SummariseMobile ==
    /\ report = NoReport
    /\ report' = FleetMobile(fleet)
    /\ UNCHANGED <<fleet, pvars, xvars, mvars>>

NextFleet ==
    \/ SummariseDashboard
    \/ SummariseMain
    \/ SummariseMobile
    \/ StatsNogui
    \/ DegradeDashboard

SpecFleet == InitFleet /\ [][NextFleet]_vars

\* ------------------------------------------------- the steps of one run
\* The runs of Spec, one step of the program at a time: phase is "loaded"
\* after load_monitoring_data of sites_table_nogui.py, "merged" after the
\* merge of main.py and "uploaded" after its upload of the master file.

\* sites_table_nogui.py 313-316 with load_monitoring_data (112-224): the
\* history and the documents are read, and the documents that were read are
\* moved to the archive
NoguiLoad(docs, readOK, moveOK) ==
    LET res == [i \in DOMAIN docs |-> RunExtract["nogui"][docs[i]]]
        successfully_read_files == {i \in DOMAIN docs : res[i].status = "ok"}
        all_data == [i \in DOMAIN docs |->
                        IF i \in successfully_read_files THEN res[i].rows ELSE << >>]
    IN  /\ phase = "idle"
        /\ prog = "nogui"
        /\ phase' = "loaded"
        /\ before' = store
        /\ listed' = docs
        /\ contrib' = all_data
        /\ processed' = successfully_read_files
        /\ readErr' = (store.exists /\ ~readOK)
        /\ archived' = IF moveOK THEN successfully_read_files ELSE {}
        /\ UNCHANGED <<prog, store, writeErr, outcome, xvars, mvars, avars>>

\* sites_table_nogui.py 318-325: the merged series is saved
NoguiSave(writeOK) ==
    LET has_hist == before.exists /\ ~readErr
        historical_df == IF has_hist THEN SeqOf(before.rows) ELSE << >>
    IN  /\ phase = "loaded"
        /\ phase' = "ended"
        /\ IF processed = {}
           THEN IF ~has_hist \/ historical_df = << >>
                THEN /\ store' = store
                     /\ writeErr' = FALSE
                     /\ outcome' = "false"
                ELSE /\ store' = IF writeOK
                                 THEN [exists |-> TRUE, rows |-> ToSet(historical_df)]
                                 ELSE store
                     /\ writeErr' = ~writeOK
                     /\ outcome' = "true"
           ELSE \E combined_df \in Deduplicate(historical_df \o ConcatAll(contrib)) :
                  /\ store' = IF writeOK
                              THEN [exists |-> TRUE, rows |-> ToSet(combined_df)]
                              ELSE store
                  /\ writeErr' = ~writeOK
                  /\ outcome' = "true"
        /\ UNCHANGED <<prog, before, listed, contrib, processed, archived,
                       readErr, xvars, mvars, avars>>

\* main.py 44-149: the master file and the documents are read and merged
MainMerge(docs, readOK) ==
    LET res == [i \in DOMAIN docs |-> RunExtract["main"][docs[i]]]
        processed_files == {i \in DOMAIN docs : res[i].status = "ok"}
        new_data == [i \in DOMAIN docs |->
                        IF i \in processed_files THEN res[i].rows ELSE << >>]
    IN  /\ phase = "idle"
        /\ prog = "main"
        /\ before' = store
        /\ listed' = docs
        /\ contrib' = new_data
        /\ processed' = processed_files
        /\ readErr' = (store.exists /\ ~readOK)
        /\ IF processed_files = {}
           THEN phase' = "ended" /\ outcome' = "returned"
           ELSE phase' = "merged" /\ outcome' = outcome
        /\ UNCHANGED <<prog, store, archived, writeErr, xvars, mvars, avars>>

\* main.py 151-154: the merged series is uploaded as the master file
MainUpload(writeOK) ==
    LET master_df == IF before.exists /\ ~readErr THEN SeqOf(before.rows) ELSE << >>
        combined == master_df \o ConcatAll(contrib)
    IN  /\ phase = "merged"
        /\ \E combined_df \in (IF combined # << >>
                               THEN Deduplicate(combined) ELSE {<< >>}) :
              IF writeOK
              THEN /\ store' = [exists |-> TRUE, rows |-> ToSet(combined_df)]
                   /\ phase' = "uploaded"
                   /\ writeErr' = FALSE
                   /\ outcome' = outcome
              ELSE /\ store' = store
                   /\ phase' = "ended"
                   /\ writeErr' = TRUE
                   /\ outcome' = "raised"
        /\ UNCHANGED <<prog, before, listed, contrib, processed, archived,
                       readErr, xvars, mvars, avars>>

\* main.py 156-161: the processed documents are moved to the archive
MainArchive(moveOK) ==
    /\ phase = "uploaded"
    /\ phase' = "ended"
    /\ archived' = IF moveOK THEN processed ELSE {}
    /\ outcome' = "returned"
    /\ UNCHANGED <<prog, store, before, listed, contrib, processed,
                   readErr, writeErr, xvars, mvars, avars>>

NextSteps ==
    \/ \E docs \in RunLists : \E readOK \in {store.exists, TRUE} :
          \E moveOK \in BOOLEAN : NoguiLoad(docs, readOK, moveOK)
    \/ \E writeOK \in BOOLEAN : NoguiSave(writeOK)
    \/ \E docs \in RunLists : \E readOK \in {store.exists, TRUE} :
          MainMerge(docs, readOK)
    \/ \E writeOK \in BOOLEAN : MainUpload(writeOK)
    \/ \E moveOK \in BOOLEAN : MainArchive(moveOK)
    \/ Exit

SpecSteps == Init /\ [][NextSteps]_vars

\* ================================================================== claims
Progs == {"main", "nogui"}

NewRows == ConcatAll(contrib)

\* the run merged new readings into the series it read and wrote the result
Merged == phase = "ended" /\ processed # {} /\ ~writeErr /\ ~readErr

\* C1: after any sequence of runs the persisted series holds at most one kWh
\* value for every (site, date) key.
C1_OneValuePerKey ==
    \A r1 \in store.rows : \A r2 \in store.rows :
        Key(r1) = Key(r2) => r1.kwh = r2.kwh

\* C1 witness: a run has merged a new reading over a stored reading of the
\* same key and another value.
C1_Witness ==
    /\ Merged
    /\ \E h \in before.rows : \E i \in DOMAIN NewRows :
          Key(NewRows[i]) = Key(h) /\ NewRows[i].kwh # h.kwh

C4_KeysKept ==
    phase = "ended" =>
        /\ Keys(before.rows) \subseteq Keys(store.rows)
        /\ \A h \in before.rows :
              h \in store.rows \/ Key(h) \in Keys(ToSet(NewRows))

\* C5: when a run ends the persisted series is the series of before the run
\* or a merge of that series with all readings extracted in the run.
C5_AllOrNothing ==
    phase = "ended" =>
        \/ store.rows = before.rows
        \/ \E m \in Deduplicate(SeqOf(before.rows) \o NewRows) :
              store.rows = ToSet(m)

\* C6: a run that could not read the existing series, or could not write
\* the series, ends in a failure outcome.
C6_PersistenceFailureIsFatal ==
    (phase = "ended" /\ (readErr \/ writeErr)) => outcome \in {"raised", "false"}

ScanRows(p) == IF p = "main" THEN ScanRowsMain ELSE ScanRowsNogui

HeaderTest(p, row) == IF p = "main" THEN HeaderTestMain(row) ELSE HeaderTestNogui(row)

\* the rows of doc the scan of program p reads
Scanned(p, doc) ==
    1..(IF Len(doc.rows) < ScanRows(p) THEN Len(doc.rows) ELSE ScanRows(p))

\* no header row is found within the scanned leading rows
NoHeaderFound(p, doc) == \A i \in Scanned(p, doc) : ~HeaderTest(p, doc.rows[i])

\* an expected column is missing when row h (from 0) gives the column names
MissingColumn(p, doc, h) ==
    IF p = "main"
    THEN ~({TxtSite, TxtDate, TxtSolar} \subseteq Range(ColumnsMain(doc.rows, h)))
    ELSE LET cols == ColumnsNogui(doc.rows, h)
         IN  ColSite(cols) = 0 \/ ColDate(cols) = 0 \/ ColSolar(cols) = 0

FirstHeader(p, doc) == Min({i \in Scanned(p, doc) : HeaderTest(p, doc.rows[i])}) - 1

\* the claim's rejected document: no header found, or a column missing
\* under the header found
C7_Rejected(p, doc) ==
    /\ ~doc.corrupt
    /\ \/ NoHeaderFound(p, doc)
       \/ MissingColumn(p, doc, FirstHeader(p, doc))

\* the rejected document of the programs: sites_table_nogui.py takes row 21
\* as the header row when it finds none
C7_RejectedByCode(p, doc) ==
    /\ ~doc.corrupt
    /\ IF NoHeaderFound(p, doc)
       THEN p = "nogui" =>
               \/ Len(doc.rows) <= ForcedHeaderRow
               \/ MissingColumn(p, doc, ForcedHeaderRow)
       ELSE MissingColumn(p, doc, FirstHeader(p, doc))

\* the run goes on after a rejected document: the documents that are read
\* add their readings, and their keys are in the series the run writes
C7_RunContinues ==
    /\ \A j \in DOMAIN listed :
          RunExtract[prog][listed[j]].status = "ok"
             => j \in processed /\ contrib[j] = RunExtract[prog][listed[j]].rows
    /\ (processed # {} /\ ~writeErr) => Keys(ToSet(NewRows)) \subseteq Keys(store.rows)
    /\ (processed # {} /\ ~writeErr) => outcome \in {"returned", "true"}

\* C7 as stated: a document without a header row in the scanned rows, or
\* without an expected column, adds no reading, and the run continues.
C7_RejectedAddsNothing ==
    phase = "ended" =>
        /\ \A i \in DOMAIN listed :
              C7_Rejected(prog, listed[i]) => i \notin processed /\ contrib[i] = << >>
        /\ C7_RunContinues

\* C7 amended: as C7, but sites_table_nogui.py reads a document without a
\* header row in the scanned rows with row 21 as its header row, and rejects
\* it when that row does not exist or lacks an expected column.
C7_Amended ==
    phase = "ended" =>
        /\ \A i \in DOMAIN listed :
              C7_RejectedByCode(prog, listed[i])
                 => i \notin processed /\ contrib[i] = << >>
        /\ C7_RunContinues

\* C7 witness: a run with a rejected document and a document that is read,
\* whose reading is in the series.
C7_Witness ==
    /\ phase = "ended"
    /\ ~writeErr
    /\ \E i \in DOMAIN listed : \E j \in DOMAIN listed :
          /\ C7_RejectedByCode(prog, listed[i])
          /\ NoHeaderFound(prog, listed[i])
          /\ j \in processed
          /\ contrib[j] # << >>
          /\ Keys(ToSet(contrib[j])) \subseteq Keys(store.rows)

\* the base document is read by program p without preamble
ValidBase(p) == Extract(p, xbase).status = "ok"

IsDateCell(c) == \E d \in Dates : c = DateCell(d)
IsNumCell(c) == \E n \in Nums : c = NumCell(n)
DateOfCell(c) == CHOOSE d \in Dates : c = DateCell(d)
NumOfCell(c) == CHOOSE n \in Nums : c = NumCell(n)

\* C9: a data row with an unreadable date is dropped and the other rows are
\* kept; a row with an unreadable energy value is kept with kWh absent (NaN,
\* which is not 0); no such row rejects the document.
C9_RowLevelFailures ==
    \A p \in Progs :
        (xres[p] # NoResult /\ xres[p].status \in {"ok", "no_valid_rows"}) =>
            LET data == Tail(xdoc.rows)
                kept == {i \in DOMAIN data : IsDateCell(data[i][2])}
                want == [i \in kept |->
                           Reading(data[i][1][1], DateOfCell(data[i][2]),
                                   IF IsNumCell(data[i][3])
                                   THEN NumOfCell(data[i][3]) ELSE NaN)]
            IN  /\ Len(xres[p].rows) = Cardinality(kept)
                /\ \A i \in kept : \E j \in DOMAIN xres[p].rows :
                      /\ xres[p].rows[j] = want[i]
                      /\ Cardinality({k \in kept : k < i}) = j - 1
                /\ \A j \in DOMAIN xres[p].rows :
                      xres[p].rows[j].kwh = NaN \/ xres[p].rows[j].kwh \in Nums
                /\ NaN \notin Nums
                /\ (xdoc.rows[1] \in {HeaderStd, HeaderPadded} /\ kept # {})
                      => xres[p].status = "ok"

\* C9 witness: a document with a row of unreadable date and a row of
\* unreadable energy value has given one reading, with kWh absent.
C9_Witness ==
    /\ Len(xdoc.rows) = 3
    /\ \E i \in 2..3 : ~IsDateCell(xdoc.rows[i][2])
    /\ \E i \in 2..3 : IsDateCell(xdoc.rows[i][2]) /\ xdoc.rows[i][3] = BadNum
    /\ \A p \in Progs :
          xres[p].status = "ok" /\ Len(xres[p].rows) = 1 /\ xres[p].rows[1].kwh = NaN

\* C10: the site matrix has one row for each site of the metadata and no
\* other row; a site of the metadata without readings has an all absent
\* production vector; a site of the series that is not in the metadata has
\* no row.
C10_MatrixRows ==
    matrix.by # "none" =>
        /\ {row.site : row \in matrix.rows} = mmeta
        /\ Cardinality(matrix.rows) = Cardinality(mmeta)
        /\ \A row \in matrix.rows :
              /\ DOMAIN row.vals = DateCols(mseries)
              /\ \A d \in DOMAIN row.vals :
                    IF \E r \in mseries : Key(r) = <<row.site, d>>
                    THEN \E r \in mseries : Key(r) = <<row.site, d>> /\ r.kwh = row.vals[d]
                    ELSE row.vals[d] = NaN

\* C10 witness: a matrix built where the metadata has a site without
\* readings and the series has a site that is not in the metadata.
C10_Witness ==
    /\ matrix.by # "none"
    /\ \E m \in mmeta : \A r \in mseries : r.site # m
    /\ \E r \in mseries : r.site \notin mmeta
    /\ \E m \in mmeta : \E r \in mseries : r.site = m /\ r.kwh # NaN

\* the window of W days ending at latest_date: latest_date - W < d <= latest_date
ClaimWindow(dates, latest_date, W) ==
    {d \in dates : latest_date - W < d /\ d <= latest_date}

\* C11: the window of length W in {7, 30, 90} holds exactly the dates d with
\* latest_date - W < d <= latest_date, so that Prod_30d is the sum of the
\* values of the last 30 days and leaves out the 31st-oldest day.
C11_Windows ==
    \A i \in DOMAIN fleet.rows :
        LET vals == fleet.rows[i].vals
            latest_date == Max(fleet.dates)
            want(W) == RowSum(vals, ClaimWindow(fleet.dates, latest_date, W))
        IN  /\ report.by = "nogui" =>
                 /\ report.rows[i].Prod_7d_kWh = want(7)
                 /\ report.rows[i].Prod_30d_kWh = want(30)
                 /\ report.rows[i].Prod_90d_kWh = want(90)
            /\ report.by = "main" => report.rows[i].Prod_30d_kWh = want(30)

AbsentOrZero(x) == x = NaNF \/ x = FInt(0)

NoCapacity(r) == IsNaNF(r.cap) \/ FLeq(r.cap, FInt(0))

\* C12: for a site whose capacity is absent or not strictly positive, every
\* specific yield (7, 30, 90 days, all-time, per day) is absent or zero,
\* never an infinite or other non-finite number.
C12_YieldOnlyWithCapacity ==
    \A i \in DOMAIN fleet.rows :
        NoCapacity(fleet.rows[i]) =>
            /\ report.by = "nogui" =>
                 /\ AbsentOrZero(report.rows[i].Avg_Yield_7d_kWh_kWp)
                 /\ AbsentOrZero(report.rows[i].Avg_Yield_30d_kWh_kWp)
                 /\ AbsentOrZero(report.rows[i].Avg_Yield_90d_kWh_kWp)
                 /\ AbsentOrZero(report.rows[i].Avg_Specific_Yield_kWh_kWp_day)
            /\ report.by = "main" =>
                 AbsentOrZero(report.rows[i].Avg_Yield_30d_kWh_kWp)
            /\ report.by = "daily" =>
                 \A d \in DOMAIN report.rows[i] :
                     AbsentOrZero(report.rows[i][d].specific_yield)


\* ---- degradation categories
\* the row of the frame has a positive reading in one of the last 3 dates
RecentData(r) == \E d \in Last3(fleet.dates) : Positive(r.vals[d])

\* the degradation categories the report shows the i-th site in
ShownIn(i) ==
    LET rec == report.rows[i]
    IN  IF ~rec.made THEN {}
        ELSE IF report.by \in {"dashboard", "main_html"} THEN rec.lists
        ELSE {rec.deg_cat}

DegReport == report.by \in {"dashboard", "mobile"}

Computed(i) ==
    LET rec == report.rows[i]
    IN  IF report.by = "dashboard"
        THEN [has |-> rec.made,
              initial |-> IF rec.made THEN rec.initial_yield_95th ELSE NaNF,
              latest |-> IF rec.made THEN rec.latest_yield_95th ELSE NaNF,
              actual |-> IF rec.made THEN rec.actual_degradation ELSE NaNF,
              stored |-> IF rec.made THEN rec.actual_degradation ELSE NaNF]
        ELSE IF report.by = "main_html"
        THEN [has |-> rec.made,
              initial |-> IF rec.made THEN rec.init_95 ELSE NaNF,
              latest |-> IF rec.made THEN rec.curr_95 ELSE NaNF,
              actual |-> IF rec.made THEN rec.actual_degradation ELSE NaNF,
              stored |-> IF rec.made THEN rec.actual_degradation ELSE NaNF]
        ELSE [has |-> rec.made /\ rec.computed,
              initial |-> IF rec.made THEN rec.init_95 ELSE NaNF,
              latest |-> IF rec.made THEN rec.curr_95 ELSE NaNF,
              actual |-> IF rec.made THEN rec.actual ELSE NaNF,
              stored |-> IF rec.made THEN rec.deg_act ELSE NaNF]

\* C14: the degradation is signed: a site with capacity > 0 and recent data
\* whose recent-window 95th percentile exceeds its commissioning-window
\* 95th percentile has a negative degradation, a stored value (rounded to
\* one decimal by mobile_generator.py) that is not positive, and the
\* category Better and no other
C14_SignedDegradation ==
    DegReport =>
        \A i \in DOMAIN fleet.rows :
            /\ Computed(i).has
            /\ FLess(FInt(0), fleet.rows[i].cap)
            /\ RecentData(fleet.rows[i])
            /\ FLess(Computed(i).initial, Computed(i).latest)
            => /\ FLess(Computed(i).actual, FInt(0))
               /\ FLeq(Computed(i).stored, FInt(0))
               /\ ShownIn(i) = {"Better"}

\* mobile_generator.py has classified an online site whose recent
\* percentile is above its commissioning percentile
C14_Witness ==
    /\ report.by = "mobile"
    /\ \E i \in DOMAIN fleet.rows :
          /\ Computed(i).has
          /\ RecentData(fleet.rows[i])
          /\ FLess(Computed(i).initial, Computed(i).latest)
          /\ report.rows[i].deg_cat = "Better"


\* the end-to-end example: the i-th site has capacity 10 kWp, was
\* commissioned on 2023-01-01, has a commissioning-window 95th percentile
\* of 50 kWh/day, a recent-window 95th percentile of 44 kWh/day two years
\* later, and recent data
Example(i) ==
    /\ DegReport
    /\ fleet.rows[i].cap = FInt(10)
    /\ FirstProductionDate(fleet.rows[i].vals, fleet.dates) = 1
    /\ Max(fleet.dates) = 732
    /\ RecentData(fleet.rows[i])
    /\ Computed(i).has
    /\ Computed(i).initial = Fl(50, 10)
    /\ Computed(i).latest = Fl(44, 10)

\* C19: in the end-to-end example the degradation is 12.0 and the category
\* is Medium
C19_ExampleMedium ==
    \A i \in DOMAIN fleet.rows :
        Example(i) => /\ Computed(i).actual = FInt(12)
                      /\ Computed(i).stored = FInt(12)
                      /\ ShownIn(i) = {"Medium"}

\* C19 (amended): in the end-to-end example the degradation is 12.0 and the
\* category is Low
C19_Amended ==
    \A i \in DOMAIN fleet.rows :
        Example(i) => /\ Computed(i).actual = FInt(12)
                      /\ Computed(i).stored = FInt(12)
                      /\ ShownIn(i) = {"Low"}

\* dashboard_generator.py has made the record of the example
C19_Witness ==
    /\ report.by = "dashboard"
    /\ \E i \in DOMAIN fleet.rows :
          /\ Example(i)
          /\ report.rows[i].actual_degradation = FInt(12)
          /\ report.rows[i].lists = {"Low"}


\* ---- fleet summaries
FleetReport == report.by \in {"fleet_dashboard", "fleet_main", "fleet_mobile"}

\* sum(yield x capacity) / sum(capacity) over the sites S
WeightedMeanYield(S) ==
    FDiv(FSumOver([i \in DOMAIN fleet.rows |->
                      FMul(report.yield[i], fleet.rows[i].cap)], S),
         FSumOver([i \in DOMAIN fleet.rows |-> fleet.rows[i].cap], S))

\* C15: the mean yield of a group whose sites all have a capacity > 0 and a
\* 30-day yield is the capacity-weighted mean of the yields of its sites
C15_WeightedGroupMean ==
    FleetReport =>
        \A g \in DOMAIN report.groups :
            LET S == {i \in DOMAIN fleet.rows : fleet.rows[i].grp = g}
            IN  (\A i \in S : /\ FLess(FInt(0), fleet.rows[i].cap)
                              /\ IsFinite(report.yield[i]))
                    => report.groups[g].avg_yield = WeightedMeanYield(S)


\* the yield-performance tiers the report has the i-th site in
TiersOf(i) ==
    {t \in {"excellent", "good", "fair", "poor"} :
        \/ t = "excellent" /\ i \in report.excellent
        \/ t = "good" /\ i \in report.good
        \/ t = "fair" /\ i \in report.fair
        \/ t = "poor" /\ i \in report.poor}

\* C16: every site with capacity > 0 is in exactly one of the four tiers
C16_TiersPartition ==
    FleetReport =>
        \A i \in DOMAIN fleet.rows :
            FLess(FInt(0), fleet.rows[i].cap) => Cardinality(TiersOf(i)) = 1


\* the i-th site has a reading on some date of the matrix
HasHistory(i) == \E d \in fleet.dates : fleet.rows[i].vals[d] # NaN

\* C17: a site is critical exactly when it has at least one reading and
\* zero or absent production on each of the last 3 dates
C17_CriticalExactly ==
    FleetReport =>
        \A i \in DOMAIN fleet.rows :
            i \in report.critical_alerts
                <=> HasHistory(i) /\ ZeroProduction(fleet.rows[i], fleet.dates)


\* ---- the whole pipeline
\* the rolling statistics and the degradation records that the analysis
\* derives from a persisted series, every site taken with 10 kWp
Analysis(series) ==
    {[stats |-> StatsRowNogui(Row(q.site, FInt(10), "g", q.vals),
                              DateCols(series)),
      degradation |-> DegradationDashboard(Row(q.site, FInt(10), "g", q.vals),
                                           DateCols(series))] :
        q \in Pivot(series)}

ExactHeaderRow(row) ==
    /\ \E j \in DOMAIN row : Strip(StrVal(row[j])) = TxtSite
    /\ \E j \in DOMAIN row : Strip(StrVal(row[j])) = TxtSolar

\* C20: when a scanned row holds the header tokens as exact trimmed cell
\* values, the header row the program takes is the first such row from the
\* top
C20_FirstExactRow ==
    \A p \in Progs :
        (/\ xres[p] # NoResult
         /\ ~xdoc.corrupt
         /\ \E i \in Scanned(p, xdoc) : ExactHeaderRow(xdoc.rows[i]))
            => (IF p = "main" THEN FindHeaderMain(xdoc.rows)
                              ELSE FindHeaderNogui(xdoc.rows))
                   = Min({i \in Scanned(p, xdoc) : ExactHeaderRow(xdoc.rows[i])}) - 1


\* ---- the site identifier column
\* C21: a document whose header names the site column "Site ID" gives the
\* readings the same document gives with the column named "Site"
C21_SiteIDAccepted ==
    \A p \in Progs :
        (/\ xres[p] # NoResult
         /\ ~xdoc.corrupt
         /\ Len(xdoc.rows) > 0
         /\ xdoc.rows[1] = HeaderSiteID)
            => xres[p] = Extract(p, Doc(<<HeaderStd>> \o Tail(xdoc.rows)))


\* ---- the commissioned date
StatsReport == report.by \in {"nogui", "main"}

\* the dates on which the i-th site has a strictly positive reading
PositiveDates(i) ==
    {d \in fleet.dates : fleet.rows[i].vals[d] # NaN /\ fleet.rows[i].vals[d] > 0}

\* C22: First_Production_Date is the earliest date with a strictly positive
\* reading of the site, and absent when there is none
C22_FirstProductionDate ==
    StatsReport =>
        \A i \in DOMAIN fleet.rows :
            LET first == report.rows[i].First_Production_Date
            IN  IF PositiveDates(i) = {} THEN first = 0
                ELSE /\ first \in PositiveDates(i)
                     /\ \A d \in PositiveDates(i) : first <= d

\* sites_table_nogui.py has skipped a zero reading and an earlier absent one
\* before the first production date
C22_Witness ==
    /\ report.by = "nogui"
    /\ \E i \in DOMAIN fleet.rows :
          /\ report.rows[i].First_Production_Date # 0
          /\ \E d \in fleet.dates :
                d < report.rows[i].First_Production_Date /\ fleet.rows[i].vals[d] = 0
          /\ \E d \in fleet.dates :
                d < report.rows[i].First_Production_Date /\ fleet.rows[i].vals[d] = NaN


\* ---- degradation records
RecordReport == report.by \in {"dashboard", "main_html"}

\* the date columns of the commissioning window and of the recent window of
\* the program that made the report: a calendar month from the first date,
\* its last day excluded, and the calendar month up to the latest date in
\* dashboard_generator.py; 30 days, both ends included, in main.py
OwnCommissioningCols(first) ==
    {d \in fleet.dates :
        IF report.by = "dashboard"
        THEN first <= d /\ d < AddMonths(first, 1)
        ELSE first <= d /\ d <= first + 30}

OwnRecentCols ==
    {d \in fleet.dates :
        IF report.by = "dashboard"
        THEN AddMonths(Max(fleet.dates), -1) <= d /\ d <= Max(fleet.dates)
        ELSE Max(fleet.dates) - 30 <= d /\ d <= Max(fleet.dates)}

\* the number of strictly positive readings of the i-th site in cols
PositiveCount(i, cols) == Cardinality(PositiveDates(i) \cap cols)

\* the minimum number of positive readings of the variant: one in the
\* reference variant, five in the stricter one
MinSamples == IF report.by = "dashboard" THEN 1 ELSE 5

\* C23: a site whose capacity is not negative has a degradation record if
\* and only if its capacity is > 0, it has a first production date and each
\* of the two windows holds at least the minimum number of strictly
\* positive readings
C23_RecordIff ==
    RecordReport =>
        \A i \in DOMAIN fleet.rows :
            LET first == FirstProductionDate(fleet.rows[i].vals, fleet.dates)
            IN  (IsNaNF(fleet.rows[i].cap) \/ FLeq(FInt(0), fleet.rows[i].cap))
                => (report.rows[i].made
                    <=> /\ FLess(FInt(0), fleet.rows[i].cap)
                        /\ first # 0
                        /\ PositiveCount(i, OwnCommissioningCols(first)) >= MinSamples
                        /\ PositiveCount(i, OwnRecentCols) >= MinSamples)


\* ---- the commissioning window
AnyDegReport == report.by \in {"dashboard", "mobile", "main_html"}

\* the strictly positive readings of the i-th site from its first
\* production date to 29 days after it
Sample30(i) ==
    LET first == FirstProductionDate(fleet.rows[i].vals, fleet.dates)
    IN  PositiveValues(fleet.rows[i].vals,
                       {d \in fleet.dates : first <= d /\ d < first + 30})

\* C24: the commissioning-window percentile of a record is the 95th
\* percentile of the positive readings of the 30 days from the first
\* production date on, the reading dated 30 days after it left out
C24_HalfOpen30Days ==
    AnyDegReport =>
        \A i \in DOMAIN fleet.rows :
            (Computed(i).has /\ FLess(FInt(0), fleet.rows[i].cap))
                => Computed(i).initial
                       = FDiv(Percentile95(Sample30(i)), fleet.rows[i].cap)


\* ---- expected degradation
\* the two-segment curve with R1 = 1.5 and R2 = 0.4
ExpectedCurve(years) ==
    IF FLeq(years, FInt(1)) THEN FMul(years, Fl(15, 10))
    ELSE FAdd(Fl(15, 10), FMul(FSub(years, FInt(1)), Fl(4, 10)))

\* C25: the expected degradation of a record is the value of the curve with
\* R1 = 1.5 and R2 = 0.4 at the years between the first production date and
\* the latest date, in every generator (to one decimal in
\* mobile_generator.py, which stores it rounded)
C25_ExpectedCurve ==
    AnyDegReport =>
        \A i \in DOMAIN fleet.rows :
            Computed(i).has =>
                LET years == YearsBetween(
                                 FirstProductionDate(fleet.rows[i].vals, fleet.dates),
                                 Max(fleet.dates))
                IN  IF report.by = "mobile"
                    THEN report.rows[i].deg_exp = Round1(ExpectedCurve(years))
                    ELSE report.rows[i].expected_degradation = ExpectedCurve(years)


\* ---- the categories
\* the category of the classification rule
RuleCategory(has_recent_data, actual) ==
    IF ~has_recent_data THEN "Offline"
    ELSE IF FLess(FInt(50), actual) THEN "High"
    ELSE IF FLeq(FInt(30), actual) THEN "Medium"
    ELSE IF FLeq(FInt(0), actual) THEN "Low"
    ELSE "Better"

\* C26: every degradation record is in exactly one category, the one the
\* rule gives for its has_recent_data and its actual degradation
C26_OneCategory ==
    AnyDegReport =>
        \A i \in DOMAIN fleet.rows :
            Computed(i).has =>
                ShownIn(i) = {RuleCategory(RecentData(fleet.rows[i]),
                                           Computed(i).actual)}

\* dashboard_generator.py has classified a record with a degradation of
\* exactly 50 as Medium
C26_Witness ==
    /\ report.by = "dashboard"
    /\ \E i \in DOMAIN fleet.rows :
          /\ report.rows[i].made
          /\ report.rows[i].has_recent_data
          /\ report.rows[i].actual_degradation = FInt(50)
          /\ report.rows[i].lists = {"Medium"}


\* ---- the latest date
\* the sum of the readings of the i-th site in the date columns from W days
\* before date L on
ProductionFrom(i, L, W) ==
    RowSum(fleet.rows[i].vals, {d \in fleet.dates : d >= L - W})

\* the strictly positive readings of the i-th site in the month up to L
RecentSample(i, L) ==
    PositiveValues(fleet.rows[i].vals,
                   {d \in fleet.dates : AddMonths(L, -1) <= d /\ d <= L})

\* C27: the rolling windows of sites_table_nogui.py and the recent window of
\* dashboard_generator.py are anchored, for every site, at the maximum date
\* of the matrix
C27_FleetLatestDate ==
    LET L == Max(fleet.dates)
    IN  /\ report.by = "nogui" =>
              \A i \in DOMAIN fleet.rows :
                  /\ report.rows[i].Prod_7d_kWh = ProductionFrom(i, L, 7)
                  /\ report.rows[i].Prod_30d_kWh = ProductionFrom(i, L, 30)
                  /\ report.rows[i].Prod_90d_kWh = ProductionFrom(i, L, 90)
        /\ report.by = "dashboard" =>
              \A i \in DOMAIN fleet.rows :
                  /\ report.rows[i].made => RecentSample(i, L) # << >>
                  /\ (report.rows[i].made /\ FLess(FInt(0), fleet.rows[i].cap))
                        => report.rows[i].latest_yield_95th
                              = FDiv(Percentile95(RecentSample(i, L)),
                                     fleet.rows[i].cap)

\* sites_table_nogui.py has computed the statistics of two sites, one with a
\* reading on the latest date and one whose only reading is more than 30
\* days older, and the 30-day production of the second is empty
C27_Witness ==
    /\ report.by = "nogui"
    /\ \E i \in DOMAIN fleet.rows : \E j \in DOMAIN fleet.rows :
          /\ fleet.rows[i].vals[Max(fleet.dates)] # NaN
          /\ fleet.rows[j].vals[Min(fleet.dates)] > 0
          /\ \A d \in fleet.dates \ {Min(fleet.dates)} : fleet.rows[j].vals[d] = NaN
          /\ report.rows[j].Prod_30d_kWh = 0
          /\ report.rows[j].Total_Production_kWh > 0


\* ---- the frame of the merge
\* the run merged new readings and wrote the series
Wrote == phase = "ended" /\ processed # {} /\ ~writeErr

C28_ArchivedAfterPersisted ==
    \A j \in archived : Keys(ToSet(contrib[j])) \subseteq Keys(store.rows)


\* the document at position j of the run was rejected by the extraction
Rejected(j) == RunExtract[prog][listed[j]].status # "ok"

\* C29: every archived document is one from which readings were extracted,
\* so a rejected document is never archived; and a run of main.py that
\* extracted no reading uploads no master file, archives nothing and leaves
\* the persisted series as it was
C29_OnlyExtractedArchived ==
    /\ \A j \in archived : ~Rejected(j) /\ contrib[j] # << >>
    /\ (prog = "main" /\ phase # "idle" /\ NewRows = << >>)
          => /\ phase # "uploaded"
             /\ archived = {}
             /\ phase = "ended" => store = before

=============================================================================
